---- MODULE Spec2Model ----
(***************************************************************************)
(* Model of batters.py: a single-run pipeline that fetches one season of   *)
(* batting statistics, derives a fantasy "Points" column, exports the      *)
(* table, ranks the columns by their Pearson correlation with Points,      *)
(* filters a denylist and fits an OLS regression.                          *)
(*                                                                         *)
(* Numbers.  Every quantity of the score is a multiple of 0.5, so a cell   *)
(* holds its value in HALVES (fixed point, one fractional bit): the stat   *)
(* 1 is stored as 2, the score 3.5 as 7.  A cell is a record               *)
(* [nan |-> BOOLEAN, v |-> Int]; NaN is the missing value of pandas.       *)
(* A correlation r is kept exactly as the fraction sgn(c)*c^2 / (vx*vy),   *)
(* which orders the columns exactly as r does.                             *)
(***************************************************************************)
EXTENDS Integers, Sequences, FiniteSets, TLC

VARIABLES pc, batters, csv, corrs, top_pos, bot_pos, variables,
          reg_variables, ols, printed, failed_at

vars == <<pc, batters, csv, corrs, top_pos, bot_pos, variables,
          reg_variables, ols, printed, failed_at>>

(* ---------------------------- bounds ----------------------------------- *)
\* largest number of rows (players) the provider returns
MaxRows == 3
\* largest value of a counting statistic
MaxStat == 2
\* largest number of further numeric columns of the provider's table
NFill == 45
\* the numbers of further columns tried are the multiples of FillStep
FillStep == 9
\* largest rotation of the order in which an unstable sort leaves equal keys
MaxRot == 1

(* ------------------------ program constants ---------------------------- *)
\* corrs.head(30)
TopN == 30
\* corrs.tail(10)
BotM == 10

(* ------------------------------ cells ---------------------------------- *)
NaN == [nan |-> TRUE, v |-> 0]

Num(h) == [nan |-> FALSE, v |-> h]

\* Mul with the divisor of the weight lost: SO counts -1 instead of -0.5
MulWholeWeight(c, num, den) == IF c.nan THEN NaN ELSE Num(c.v * num)

\* pandas: Series * scalar, the scalar being num/den; NaN stays NaN
Mul(c, num, den) == IF c.nan THEN NaN ELSE Num((c.v * num) \div den)

\* Add as a sum that skips the missing values (fill_value=0)
AddSkipNaN(a, b) ==
    Num((IF a.nan THEN 0 ELSE a.v) + (IF b.nan THEN 0 ELSE b.v))

\* pandas: Series + Series, element-wise; NaN + x = NaN
Add(a, b) == IF a.nan \/ b.nan THEN NaN ELSE Num(a.v + b.v)

(* --------------------------- sequences --------------------------------- *)
Range(s) == {s[i] : i \in DOMAIN s}

Min2(a, b) == IF a < b THEN a ELSE b

\* Series.head(k): the first k entries, all of them when there are fewer
Head_(s, k) == SubSeq(s, 1, Min2(k, Len(s)))

\* Series.tail(k): the last k entries, all of them when there are fewer
Tail_(s, k) == SubSeq(s, Len(s) - Min2(k, Len(s)) + 1, Len(s))

\* list(series.index)
Index(s) == [i \in DOMAIN s |-> s[i].name]

(* ------------------------ the provider's table ------------------------- *)
\* the columns the score reads, in the order of the provider's table
InputCols == <<"H", "2B", "3B", "HR", "R", "RBI", "BB", "IBB", "SO", "HBP",
               "SB", "CS">>

\* pitch-metric columns of the provider that are mostly missing
RareCols == <<"SB-X (pi)", "wSB/C (pi)", "KN% (pi)", "KN%", "XX% (pi)",
              "KN% (sc)", "CS% (pi)", "vSB (pi)", "SB% (pi)">>

FillCols(nf) == [k \in 1..nf |-> "F" \o ToString(k)]

\* a rare column: all missing, or two neighbouring rows defined
RareCell(j, r) ==
    IF j % 3 = 0 THEN NaN
    ELSE IF j % 3 = 1 THEN (IF r <= 2 THEN Num((j * r) % 5) ELSE NaN)
    ELSE (IF r >= 2 THEN Num((j + 2 * r) % 5) ELSE NaN)

\* a further column: a rate statistic, never missing
FillCell(k, r) ==
    IF r = 1 THEN Num(0)
    ELSE IF r = 2 THEN Num(k)
    ELSE Num((k * k + r) % 7)

PosOf(s, x) == CHOOSE i \in DOMAIN s : s[i] = x

Has(s, x) == \E i \in DOMAIN s : s[i] = x

\* the table pb.batting_stats returns for one choice of the data:
\*   n rows; R as given; the column hot is 1,1,0,...; the other counting
\*   statistics are 0; the cell mask is missing; the column drop is absent;
\*   text tells whether the player-name column (dtype object, its cells
\*   stand for the names) is there
Table(n, Rv, hot, mask, nf, drop, text) ==
    LET stat  == SelectSeq(InputCols, LAMBDA c : c # drop)
        cols  == (IF text THEN <<"Name">> ELSE <<>>) \o stat \o RareCols
                 \o FillCols(nf)
        raw(c, r) ==
            IF c = "Name" THEN Num(r)
            ELSE IF Has(RareCols, c) THEN RareCell(PosOf(RareCols, c), r)
            ELSE IF Has(FillCols(nf), c) THEN FillCell(PosOf(FillCols(nf), c), r)
            ELSE IF c = "R" THEN Num(2 * Rv[r])
            ELSE IF c = hot THEN (IF r <= 2 THEN Num(2) ELSE Num(0))
            ELSE Num(0)
        cell(c, r) == IF mask = <<c, r>> THEN NaN ELSE raw(c, r)
    IN  [ n    |-> n,
          cols |-> cols,
          text |-> IF text THEN {"Name"} ELSE {},
          val  |-> [c \in Range(cols) |-> [r \in 1..n |-> cell(c, r)]] ]

NoMask == <<"", 0>>

\* the cells tried as the missing one
Masks(n, hot) == {NoMask, <<"R", 1>>, <<hot, n>>, <<"IBB", 1>>}

FillCounts == {k \in 0..NFill : k % FillStep = 0}

\* every R column of n rows
Rvecs(n) == [1..n -> 0..MaxStat]

\* the R columns of n rows that are 0 in every row but one
Peaks(n) == { [r \in 1..n |-> IF r = q THEN h ELSE 0] : q \in 1..n, h \in 0..MaxStat }

\* the R column 1, 0, 2, 2, ...
ExR(n) == [r \in 1..n |-> IF r = 1 THEN 1 ELSE IF r = 2 THEN 0 ELSE 2]

\* the data sets the provider is taken to return
Datasets ==
    \* every R column, with H = 1,1,0,.. and one cell missing
    { Table(Len(Rv), Rv, "H", mask, 0, "", TRUE) :
        Rv \in UNION {Rvecs(n) : n \in 1..MaxRows},
        mask \in UNION {Masks(n, "H") : n \in 1..MaxRows} }
    \cup
    \* every counting statistic in turn as the column 1,1,0,..
    UNION { { Table(n, ExR(n), hot, mask, 0, "", TRUE) : mask \in Masks(n, hot) } :
              n \in 1..MaxRows, hot \in Range(InputCols) \ {"R"} }
    \cup
    \* wide tables: further columns, so that the ranking has up to
    \* and beyond TopN + BotM entries
    { Table(MaxRows, Rv, "H", NoMask, nf, "", TRUE) :
        Rv \in Peaks(MaxRows), nf \in FillCounts }
    \cup
    \* other schemas: a counting statistic absent, no text column
    { Table(MaxRows, ExR(MaxRows), "H", NoMask, 0, drop, text) :
        drop \in Range(InputCols) \cup {""}, text \in BOOLEAN }

Init ==
    /\ pc = "acquire"
    /\ batters = [n |-> 0, cols |-> <<>>, text |-> {}, val |-> <<>>]
    /\ csv = <<>>
    /\ corrs = <<>>
    /\ top_pos = <<>>
    /\ bot_pos = <<>>
    /\ variables = <<>>
    /\ reg_variables = <<>>
    /\ ols = <<>>
    /\ printed = FALSE
    /\ failed_at = ""

(* --------------------------- failure ----------------------------------- *)
\* Raise inside a try/except that goes on to the report
RaiseSwallowed(step) ==
    /\ pc' = "report"
    /\ failed_at' = step

\* an exception leaves the module: the interpreter stops, nothing later runs
Raise(step) ==
    /\ pc' = "failed"
    /\ failed_at' = step

(* ---------------- line 14: batters = pb.batting_stats(...) ------------- *)
Acquire ==
    /\ pc = "acquire"
    /\ \E d \in Datasets :
          /\ batters' = d
          /\ pc' = "score"
    /\ UNCHANGED <<csv, corrs, top_pos, bot_pos, variables, reg_variables,
                   ols, printed, failed_at>>

\* the provider is unreachable or has no data for the season
AcquireFails ==
    /\ pc = "acquire"
    /\ Raise("acquire")
    /\ UNCHANGED <<batters, csv, corrs, top_pos, bot_pos, variables,
                   reg_variables, ols, printed>>

(* ---------------- lines 17-28: batters["Points"] = ... ----------------- *)
\* the terms of the sum in the order they are added: column, weight num/den
Terms == << <<"R", 2, 1>>, <<"H", 1, 1>>, <<"2B", 1, 1>>, <<"3B", 2, 1>>,
            <<"HR", 3, 1>>, <<"RBI", 2, 1>>, <<"SB", 1, 1>>, <<"CS", -1, 1>>,
            <<"BB", 1, 1>>, <<"IBB", 1, 1>>, <<"HBP", 1, 1>>, <<"SO", -1, 2>> >>

\* batters[col] * weight, at row r
Term(b, i, r) == Mul(b.val[Terms[i][1]][r], Terms[i][2], Terms[i][3])

RECURSIVE SumTerms(_, _, _)
\* the left-to-right sum of the first i terms, at row r
SumTerms(b, i, r) ==
    IF i = 1 THEN Term(b, 1, r)
    ELSE Add(SumTerms(b, i - 1, r), Term(b, i, r))

\* the Points series
PointsOf(b) == [r \in 1..b.n |-> SumTerms(b, Len(Terms), r)]

\* batters[c] raises KeyError when the table has no column c
KeyError(b) == \E i \in DOMAIN Terms : ~Has(b.cols, Terms[i][1])

\* df[name] = series: a new column goes last, an existing one is overwritten
SetColumn(b, name, series) ==
    [b EXCEPT !.cols = IF Has(b.cols, name) THEN b.cols ELSE Append(b.cols, name),
              !.val  = [c \in DOMAIN b.val \cup {name} |->
                           IF c = name THEN series ELSE b.val[c]]]

Score ==
    /\ pc = "score"
    /\ ~KeyError(batters)
    /\ batters' = SetColumn(batters, "Points", PointsOf(batters))
    /\ pc' = "export"
    /\ UNCHANGED <<csv, corrs, top_pos, bot_pos, variables, reg_variables,
                   ols, printed, failed_at>>

ScoreFails ==
    /\ pc = "score"
    /\ KeyError(batters)
    /\ Raise("score")
    /\ UNCHANGED <<batters, csv, corrs, top_pos, bot_pos, variables,
                   reg_variables, ols, printed>>

(* ---------------- line 30: batters.to_csv("batterpoints.csv") ---------- *)
\* ToCsv with index=False: no leading index column
ToCsvNoIndex(b) ==
    [ header |-> b.cols,
      lines  |-> [r \in 1..b.n |->
                    [index  |-> r - 1,
                     fields |-> Tail([i \in DOMAIN b.cols |-> b.val[b.cols[i]][r]])]] ]

\* to_csv with its defaults (index=True, header=True): a header line whose
\* first field, the label of the index, is empty, then one line per row
\* that starts with the row's index label
ToCsv(b) ==
    [ header |-> <<"">> \o b.cols,
      lines  |-> [r \in 1..b.n |->
                    [index  |-> r - 1,
                     fields |-> [i \in DOMAIN b.cols |-> b.val[b.cols[i]][r]]]] ]

Export ==
    /\ pc = "export"
    /\ csv' = <<ToCsv(batters)>>
    /\ pc' = "corr"
    /\ UNCHANGED <<batters, corrs, top_pos, bot_pos, variables,
                   reg_variables, ols, printed, failed_at>>

\* the working directory is not writable: open() raises, no file appears
ExportFails ==
    /\ pc = "export"
    /\ Raise("export")
    /\ UNCHANGED <<batters, csv, corrs, top_pos, bot_pos, variables,
                   reg_variables, ols, printed>>

(* ---------------- line 33: corrs = batters.corr().Points --------------- *)
RECURSIVE SumTo(_, _)
\* f[1] + ... + f[n]
SumTo(f, n) == IF n = 0 THEN 0 ELSE f[n] + SumTo(f, n - 1)

Sgn(c) == IF c > 0 THEN 1 ELSE IF c < 0 THEN -1 ELSE 0

\* an undefined correlation
NaNCorr(name) == [name |-> name, nan |-> TRUE, num |-> 0, den |-> 1]

\* DataFrame.corr (method pearson, min_periods 1) for one pair of columns:
\* only the rows where both are defined count; with m such rows,
\*   c = m*Sxy - Sx*Sy,  vx = m*Sxx - Sx^2,  vy = m*Syy - Sy^2,
\* r = c / sqrt(vx*vy), and r is NaN when there is no such row or a
\* variance is zero.  The entry keeps sgn(c)*c^2 / (vx*vy).
Pearson(name, x, y, n) ==
    LET ok  == [r \in 1..n |-> ~x[r].nan /\ ~y[r].nan]
        xs  == [r \in 1..n |-> IF ok[r] THEN x[r].v ELSE 0]
        ys  == [r \in 1..n |-> IF ok[r] THEN y[r].v ELSE 0]
        m   == SumTo([r \in 1..n |-> IF ok[r] THEN 1 ELSE 0], n)
        sx  == SumTo(xs, n)
        sy  == SumTo(ys, n)
        sxx == SumTo([r \in 1..n |-> xs[r] * xs[r]], n)
        syy == SumTo([r \in 1..n |-> ys[r] * ys[r]], n)
        sxy == SumTo([r \in 1..n |-> xs[r] * ys[r]], n)
        vx  == m * sxx - sx * sx
        vy  == m * syy - sy * sy
        c   == m * sxy - sx * sy
    IN  IF m < 1 \/ vx = 0 \/ vy = 0 THEN NaNCorr(name)
        ELSE [name |-> name, nan |-> FALSE, num |-> Sgn(c) * c * c, den |-> vx * vy]

\* the numeric columns, in the order of the table
NumericCols(b) == SelectSeq(b.cols, LAMBDA c : c \notin b.text)

\* the column Points of the correlation matrix: one entry per numeric
\* column, indexed by the column's name
CorrWithPoints(b) ==
    LET nc == NumericCols(b)
    IN  [i \in DOMAIN nc |-> Pearson(nc[i], b.val[nc[i]], b.val["Points"], b.n)]

\* pandas before 2.0 leaves the non-numeric columns out without a word
Corr ==
    /\ pc = "corr"
    /\ corrs' = CorrWithPoints(batters)
    /\ pc' = "dropna"
    /\ UNCHANGED <<batters, csv, top_pos, bot_pos, variables, reg_variables,
                   ols, printed, failed_at>>

\* pandas from 2.0 on (numeric_only=False) raises ValueError on a text column
CorrFails ==
    /\ pc = "corr"
    /\ batters.text # {}
    /\ Raise("corr")
    /\ UNCHANGED <<batters, csv, corrs, top_pos, bot_pos, variables,
                   reg_variables, ols, printed>>

(* ---------------- line 34: corrs.dropna(inplace=True) ------------------ *)
\* DropNa as fillna(0): the undefined correlations stay, as zeros
FillNa(s) == [i \in DOMAIN s |-> [s[i] EXCEPT !.nan = FALSE]]

DropNa(s) == SelectSeq(s, LAMBDA e : ~e.nan)

Drop ==
    /\ pc = "dropna"
    /\ corrs' = DropNa(corrs)
    /\ pc' = "sort"
    /\ UNCHANGED <<batters, csv, top_pos, bot_pos, variables, reg_variables,
                   ols, printed, failed_at>>

(* ---------------- line 35: corrs.sort_values(ascending=False) ---------- *)
RECURSIVE FracLess(_, _, _, _)
\* a/b < c/d for b, d > 0, by the continued-fraction expansions
FracLess(a, b, c, d) ==
    LET qa == a \div b
        qc == c \div d
        ra == a % b
        rc == c % d
    IN  IF qa # qc THEN qa < qc
        ELSE IF rc = 0 THEN FALSE
        ELSE IF ra = 0 THEN TRUE
        ELSE FracLess(d, rc, b, ra)

\* entry e has a smaller correlation than entry f
CorrLess(e, f) == FracLess(e.num, e.den, f.num, f.den)

\* SortValues with ascending=True
SortAscending(s, tie) ==
    LET n == Len(s)
        before(j, i) == \/ CorrLess(s[j], s[i])
                        \/ /\ ~CorrLess(s[i], s[j])
                           /\ tie[j] < tie[i]
        pos == [i \in 1..n |-> 1 + Cardinality({j \in 1..n : before(j, i)})]
    IN  [p \in 1..n |-> s[CHOOSE i \in 1..n : pos[i] = p]]

\* sort_values(ascending=False, kind="quicksort"): descending by value.
\* The sort is not stable: the order of equal values is left to the build
\* (introsort or a SIMD sort, and the rounding of the floats).  tie gives
\* that order: entries of equal value come by ascending tie[i].
SortValues(s, tie) ==
    LET n == Len(s)
        before(j, i) == \/ CorrLess(s[i], s[j])
                        \/ /\ ~CorrLess(s[j], s[i])
                           /\ tie[j] < tie[i]
        pos == [i \in 1..n |-> 1 + Cardinality({j \in 1..n : before(j, i)})]
    IN  [p \in 1..n |-> s[CHOOSE i \in 1..n : pos[i] = p]]

\* the orders of equal values tried: the original order or its reverse,
\* rotated by up to MaxRot places
TieOrders(n) ==
    { [i \in 1..n |-> IF fwd THEN (i + rot) % n ELSE n - ((i + rot) % n)] :
        fwd \in BOOLEAN, rot \in 0..MaxRot }

Sort ==
    /\ pc = "sort"
    /\ \E tie \in TieOrders(Len(corrs)) : corrs' = SortValues(corrs, tie)
    /\ pc' = "select"
    /\ UNCHANGED <<batters, csv, top_pos, bot_pos, variables, reg_variables,
                   ols, printed, failed_at>>

(* ---------------- lines 36-38: top_pos, bot_pos, variables ------------- *)
\* Candidates with the two groups the other way round
CandidatesBottomFirst(top, bot) == Index(Head_(bot, BotM)) \o Index(Head_(top, TopN))

\* list(top_pos.head(30).index) + list(bot_pos.head(10).index)
Candidates(top, bot) == Index(Head_(top, TopN)) \o Index(Head_(bot, BotM))

Select ==
    /\ pc = "select"
    /\ top_pos' = Head_(corrs, TopN)
    /\ bot_pos' = Tail_(corrs, BotM)
    /\ variables' = Candidates(top_pos', bot_pos')
    /\ pc' = "filter"
    /\ UNCHANGED <<batters, csv, corrs, reg_variables, ols, printed, failed_at>>

(* ---------------- lines 41-55: to_remove, reg_variables ---------------- *)
to_remove == <<"Points", "SB-X (pi)", "wSB/C (pi)", "KN% (pi)", "KN%",
               "XX% (pi)", "KN% (sc)", "CS% (pi)", "vSB (pi)", "SB% (pi)">>

\* Keep with the test inverted: "if par in to_remove"
KeepInverted(par) == Has(to_remove, par)

\* the test of line 54
Keep(par) == ~Has(to_remove, par)

RECURSIVE FilterLoopInsert(_, _, _)
\* FilterLoop with reg_variables.insert(0, par) for the append
FilterLoopInsert(vs, i, acc) ==
    IF i > Len(vs) THEN acc
    ELSE FilterLoopInsert(vs, i + 1, IF Keep(vs[i]) THEN <<vs[i]>> \o acc ELSE acc)

RECURSIVE FilterLoop(_, _, _)
\* the for loop from its i-th iteration on, acc being reg_variables so far
FilterLoop(vs, i, acc) ==
    IF i > Len(vs) THEN acc
    ELSE FilterLoop(vs, i + 1, IF Keep(vs[i]) THEN Append(acc, vs[i]) ELSE acc)

Filter ==
    /\ pc = "filter"
    /\ reg_variables' = FilterLoop(variables, 1, <<>>)
    /\ pc' = "ols"
    /\ UNCHANGED <<batters, csv, corrs, top_pos, bot_pos, variables, ols,
                   printed, failed_at>>

(* ---------------- lines 58-60: y, x, model = sm.OLS(y, x) -------------- *)
\* the rows of the table
AllRows(b) == 1..b.n

\* the rows with a value in Points and in every column of names
CompleteRows(b, names) ==
    {r \in 1..b.n : /\ ~b.val["Points"][r].nan
                    /\ \A i \in DOMAIN names : ~b.val[names[i]][r].nan}

\* OlsRows with missing="drop": the incomplete rows are left out
OlsRowsDrop(b, names) == CompleteRows(b, names)

\* sm.OLS(y, x) with its default missing="none": no row is dropped, the
\* model holds y and x as they are
OlsRows(b, names) == AllRows(b)

\* the exog check of the model's constructor: a NaN in x raises
\* MissingDataError("exog contains inf or nans")
ExogHasNaN(b, names) ==
    \E i \in DOMAIN names : \E r \in 1..b.n : b.val[names[i]][r].nan

Regress ==
    /\ pc = "ols"
    /\ ~ExogHasNaN(batters, reg_variables)
    /\ ols' = <<[rows |-> OlsRows(batters, reg_variables), exog |-> reg_variables]>>
    /\ pc' = "fit"
    /\ UNCHANGED <<batters, csv, corrs, top_pos, bot_pos, variables,
                   reg_variables, printed, failed_at>>

\* a NaN in x raises; so may an x with no column at all (the rank of an
\* empty matrix), depending on the numpy at hand
RegressFails ==
    /\ pc = "ols"
    /\ ExogHasNaN(batters, reg_variables) \/ reg_variables = <<>>
    /\ Raise("ols")
    /\ UNCHANGED <<batters, csv, corrs, top_pos, bot_pos, variables,
                   reg_variables, ols, printed>>

(* ---------------- line 61: residuals = model.fit() --------------------- *)
\* the fit goes through the pseudo-inverse of x: collinear columns and a
\* NaN in y do not raise, the estimates are then not unique or NaN
Fit ==
    /\ pc = "fit"
    /\ pc' = "report"
    /\ UNCHANGED <<batters, csv, corrs, top_pos, bot_pos, variables,
                   reg_variables, ols, printed, failed_at>>

(* ---------------- line 63: print(residuals.summary()) ------------------ *)
Report ==
    /\ pc = "report"
    /\ printed' = TRUE
    /\ pc' = "done"
    /\ UNCHANGED <<batters, csv, corrs, top_pos, bot_pos, variables,
                   reg_variables, ols, failed_at>>

Next ==
    \/ Acquire
    \/ AcquireFails
    \/ Score
    \/ ScoreFails
    \/ Export
    \/ ExportFails
    \/ Corr
    \/ CorrFails
    \/ Drop
    \/ Sort
    \/ Select
    \/ Filter
    \/ Regress
    \/ RegressFails
    \/ Fit
    \/ Report

Spec == Init /\ [][Next]_vars

(* ======================= properties of the run ========================= *)
\* the steps in the order of the source
Steps == <<"acquire", "score", "export", "corr", "dropna", "sort", "select",
           "filter", "ols", "fit", "report", "done">>

\* the step the run is at, or the step it failed at
Current == IF pc = "failed" THEN failed_at ELSE pc

\* step has run to its end
Finished(step) == PosOf(Steps, Current) > PosOf(Steps, step)

\* the value, in halves, of column c at row r
V(c, r) == batters.val[c][r].v

\* row r has a value in every column the score reads
AllInputs(r) == \A i \in DOMAIN InputCols : ~batters.val[InputCols[i]][r].nan

\* the table is the example of the specification: R = 1,0,2, H = 1,1,0
ExampleTable ==
    /\ batters.n = 3
    /\ \A r \in 1..3 : AllInputs(r)
    /\ <<V("R", 1), V("R", 2), V("R", 3)>> = <<2, 0, 4>>
    /\ <<V("H", 1), V("H", 2), V("H", 3)>> = <<2, 2, 0>>
    /\ \A i \in DOMAIN InputCols : InputCols[i] \notin {"R", "H"} =>
          \A r \in 1..3 : V(InputCols[i], r) = 0

\* C1: once the score is derived, every row with all twelve inputs defined
\* has Points = 2R + H + 2B + 2*3B + 3HR + 2RBI + SB - CS + BB + IBB + HBP
\* - 0.5*SO (both sides doubled, the cells being in halves), and the example
\* table gets Points = 3, 1, 4
C1_ScoreFormula ==
    Finished("score") =>
      /\ \A r \in 1..batters.n : AllInputs(r) =>
            /\ ~batters.val["Points"][r].nan
            /\ 2 * V("Points", r) =
                 2 * ( 2 * V("R", r) + V("H", r) + V("2B", r) + 2 * V("3B", r)
                     + 3 * V("HR", r) + 2 * V("RBI", r) + V("SB", r) - V("CS", r)
                     + V("BB", r) + V("IBB", r) + V("HBP", r) )
                 - V("SO", r)
      /\ ExampleTable =>
            <<V("Points", 1), V("Points", 2), V("Points", 3)>> = <<6, 2, 8>>

\* the example table has been scored
C1_Witness == Finished("score") /\ ExampleTable /\ V("Points", 3) = 8

\* C2: a row with a missing input has a missing Points, a row without has
\* a defined one, and a missing value never makes the derivation fail (it
\* fails only when a whole column is absent)
C2_MissingPropagates ==
    /\ Finished("score") =>
          \A r \in 1..batters.n : batters.val["Points"][r].nan <=> ~AllInputs(r)
    /\ (pc = "failed" /\ failed_at = "score") =>
          \E i \in DOMAIN InputCols : ~Has(batters.cols, InputCols[i])

\* a scored table with a row that misses an input and a row that does not
C2_Witness ==
    /\ Finished("score")
    /\ \E r \in 1..batters.n : ~AllInputs(r) /\ batters.val["Points"][r].nan
    /\ \E r \in 1..batters.n : AllInputs(r) /\ V("Points", r) > 0

\* the columns of the provider's table (it has no column Points)
OriginalCols == SelectSeq(batters.cols, LAMBDA c : c # "Points")

\* the file has k fields in the header and in every line, and one line per row
CsvShape(k) ==
    /\ Len(csv[1].header) = k
    /\ \A r \in DOMAIN csv[1].lines : 1 + Len(csv[1].lines[r].fields) = k
    /\ Len(csv[1].lines) = batters.n

\* C3 as stated: the file has (original column count + 1) columns and as
\* many data rows as the table
C3_Original == csv # <<>> => CsvShape(Len(OriginalCols) + 1)

\* C3 amended: the file has (original column count + 2) columns, the
\* unlabelled index column first, then the original columns, then Points,
\* and as many data rows as the table
C3_CsvShape ==
    csv # <<>> =>
      /\ CsvShape(Len(OriginalCols) + 2)
      /\ csv[1].header = <<"">> \o OriginalCols \o <<"Points">>

\* a file with several lines has been written
C3_Witness == csv # <<>> /\ Len(csv[1].lines) = MaxRows /\ Len(OriginalCols) > 20

\* entry e is a correlation of exactly 1
IsOne(e) == ~e.nan /\ e.num = e.den

\* Points takes two different defined values
PointsVaries ==
    \E r, q \in 1..batters.n :
        /\ ~batters.val["Points"][r].nan
        /\ ~batters.val["Points"][q].nan
        /\ V("Points", r) # V("Points", q)

Distinct(s) == \A i, j \in DOMAIN s : i # j => s[i] # s[j]

\* corrs is in descending order
Descending == \A i, j \in DOMAIN corrs : i < j => ~CorrLess(corrs[i], corrs[j])

\* C5 as stated: the candidate list is 40 column names, the 30 highest
\* ranked and then the 10 lowest ranked
C5_Original ==
    Finished("select") =>
      /\ Len(variables) = 40
      /\ Distinct(variables)
      /\ \A k \in 1..30 : variables[k] = corrs[k].name
      /\ \A k \in 1..10 : variables[30 + k] = corrs[Len(corrs) - 10 + k].name

\* C5 amended: with n defined correlations, sorted in descending order, the
\* candidate list is the min(30,n) highest ranked names and then the
\* min(10,n) lowest ranked ones, each group in ranking order; these are 40
\* different names when n >= 40, and names repeat when n < 40
C5_Candidates ==
    Finished("select") =>
      LET n == Len(corrs)
          a == IF n < 30 THEN n ELSE 30
          b == IF n < 10 THEN n ELSE 10
      IN  /\ Descending
          /\ Len(variables) = a + b
          /\ \A k \in 1..a : variables[k] = corrs[k].name
          /\ \A k \in 1..b : variables[a + k] = corrs[n - b + k].name
          /\ n >= 40 => Len(variables) = 40 /\ Distinct(variables)
          /\ (0 < n /\ n < 40) => ~Distinct(variables)

\* more than 40 columns are ranked: some are in neither group
C5_Witness == Finished("select") /\ Len(corrs) > 40 /\ Len(variables) = 40

\* the correlation of column c with Points is undefined: no row has both,
\* or one of the two is constant over the rows that have both
Undefined(c) ==
    LET S == {r \in 1..batters.n :
                ~batters.val[c][r].nan /\ ~batters.val["Points"][r].nan}
    IN  \/ \A r, q \in S : V(c, r) = V(c, q)
        \/ \A r, q \in S : V("Points", r) = V("Points", q)

\* C6: from the dropna on, no column with an undefined correlation is in
\* the ranking, the two selections, the candidates or the predictors, and
\* every numeric column with a defined one is in the ranking
C6_NoUndefined ==
    Finished("dropna") =>
      /\ \A i \in DOMAIN corrs : ~Undefined(corrs[i].name)
      /\ \A i \in DOMAIN top_pos : ~Undefined(top_pos[i].name)
      /\ \A i \in DOMAIN bot_pos : ~Undefined(bot_pos[i].name)
      /\ \A i \in DOMAIN variables : ~Undefined(variables[i])
      /\ \A i \in DOMAIN reg_variables : ~Undefined(reg_variables[i])
      /\ \A c \in Range(NumericCols(batters)) :
            ~Undefined(c) => \E i \in DOMAIN corrs : corrs[i].name = c

\* a ranking was made of a table with constant and with all-missing columns
C6_Witness ==
    /\ Finished("select")
    /\ Len(variables) > BotM
    /\ Undefined("HR")
    /\ Undefined("KN% (pi)")
    /\ \E i \in DOMAIN variables : variables[i] = "R"

\* the ten names of the denylist
Denylist == {"Points", "SB-X (pi)", "wSB/C (pi)", "KN% (pi)", "KN%", "XX% (pi)",
             "KN% (sc)", "CS% (pi)", "vSB (pi)", "SB% (pi)"}

\* C7: after the filtering no name of the denylist is a predictor
C7_NoDenylisted ==
    Finished("filter") => \A i \in DOMAIN reg_variables : reg_variables[i] \notin Denylist

\* candidates with Points and a rare column among them have been filtered
C7_Witness ==
    /\ Finished("filter")
    /\ Has(variables, "Points")
    /\ \E i \in DOMAIN variables : variables[i] \in Denylist \ {"Points"}
    /\ reg_variables # <<>>

\* C8: the predictor list is the candidate list with the denylisted entries
\* deleted, the others kept in their order, and the filtering never fails
C8_OrderPreserving ==
    /\ Finished("filter") =>
          reg_variables = SelectSeq(variables, LAMBDA v : v \notin Denylist)
    /\ ~(pc = "failed" /\ failed_at = "filter")

\* a filtering that deleted some entries, kept several, with a denylisted
\* name that was not a candidate
C8_Witness ==
    /\ Finished("filter")
    /\ Len(reg_variables) >= 3
    /\ Len(reg_variables) < Len(variables)
    /\ \E d \in Denylist : ~Has(variables, d)

\* C9 as stated: the rows of the fit are the rows with a value in Points
\* and in every predictor
C9_Original ==
    ols # <<>> => ols[1].rows = CompleteRows(batters, reg_variables)

\* C9 amended: the regression is given every row of the table, none is
\* excluded; a missing value in a predictor makes the construction of the
\* model fail, so a model exists only when every predictor is complete
C9_AllRowsPassed ==
    /\ ols # <<>> =>
          /\ ols[1].rows = 1..batters.n
          /\ \A i \in DOMAIN reg_variables : \A r \in 1..batters.n :
                ~batters.val[reg_variables[i]][r].nan
    /\ (Finished("filter") /\ ExogHasNaN(batters, reg_variables)) =>
          (pc = "ols" \/ (pc = "failed" /\ failed_at = "ols"))

\* a model was built on a table with a row that has no Points
C9_Witness ==
    /\ ols # <<>>
    /\ reg_variables # <<>>
    /\ \E r \in 1..batters.n : batters.val["Points"][r].nan

\* the state a failure at each step must leave
FailureState ==
    /\ printed => (pc = "done" /\ failed_at = "")
    /\ pc = "failed" =>
          /\ ~printed
          /\ failed_at \in {"acquire", "score", "export", "corr", "ols"}
          /\ failed_at \in {"acquire", "score"} => csv = <<>>
          /\ failed_at \in {"corr", "ols"} => csv # <<>>
          /\ failed_at = "acquire" => batters.cols = <<>>
          /\ failed_at = "score" => ~Has(batters.cols, "Points")
          /\ failed_at \in {"acquire", "score", "export", "corr"} =>
                corrs = <<>> /\ variables = <<>> /\ reg_variables = <<>>
          /\ ols = <<>>

\* a step is followed by the next step of the source, or by the failure
InOrder ==
    \/ /\ pc # "failed"
       /\ pc # "done"
       /\ pc' = Steps[PosOf(Steps, pc) + 1]
       /\ failed_at' = ""
    \/ /\ pc \notin {"failed", "done"}
       /\ pc' = "failed"
       /\ failed_at' = pc

\* C10: the steps run in the order of the source, a failure ends the run at
\* the failing step: nothing later runs, a failure up to the export leaves
\* no file and no report, a later one leaves the file and no report
C10_FailureStops == []FailureState /\ [][InOrder]_vars

\* a run that failed after the export
C10_Witness == pc = "failed" /\ failed_at = "ols" /\ csv # <<>> /\ ~printed
====
